---------------------------- MODULE Spec2Model ----------------------------
(***************************************************************************)
(* A model of the process-supervision core of conmon-rs: the child         *)
(* registry and the reaping loop of child_reaper.rs, the request handlers  *)
(* of rpc.rs that register container processes and look them up, and the   *)
(* journald log driver of container_log/journald.rs.                       *)
(*                                                                         *)
(* The daemon runs on a single-threaded cooperative runtime                *)
(* (server.rs, Builder::new_current_thread).  A task keeps the thread      *)
(* until it reaches an .await that is pending or until it ends.            *)
(***************************************************************************)
EXTENDS Integers, Sequences, FiniteSets, TLC

(* ------------------------------ bounds --------------------------------- *)

\* Process ids the operating system hands out (and reuses) are 1..MaxPid.
MaxPid == 1

\* Request-handler futures in flight at once.
MaxReqs == 1

\* Bytes of container output given to the journald driver in all.
MaxLen == 3

(* --------------------------- value domains ----------------------------- *)

Pids == 1..MaxPid

\* Filesystem paths that requests name as exit paths.
Paths == {"a", "b"}

\* The exit-path vectors a caller passes.
PathLists == {<< >>, <<"a">>, <<"a", "b">>}

\* The create_container requests that arrive: container id, exit paths and
\* oom exit paths.
CreateRequests ==
    {[id |-> "c1", exit_paths |-> <<"a", "b">>, oom_exit_paths |-> <<"b">>],
     [id |-> "c2", exit_paths |-> <<"a">>, oom_exit_paths |-> << >>]}

\* Container ids under which children are registered.
ContainerIds == {"c1", "c2"}

Reqs == 1..MaxReqs

\* max_log_size of the journald drivers: none, or a number of bytes.
MaxLogSizes == {[some |-> FALSE, v |-> 0], [some |-> TRUE, v |-> 12],
                [some |-> TRUE, v |-> 25]}

\* timeout_sec of an exec_sync_container request; 0 is no deadline.
Timeouts == {0, 1}

\* The bytes that reach the log driver from a container's output.
Bytes == {"x", " ", "\n"}

\* What one call of JournaldLogger::write is given to read.
Inputs == UNION {[1..n -> Bytes] : n \in 0..MaxLen}

Pipes == {"StdOut", "StdErr"}

\* The Debug text of SystemTime::now(); its length varies with the digits
\* of the time.
Stamps == {<<"T">>, <<"T", "T">>}

\* Exit codes of normally exiting processes (WaitStatus::Exited(pid, ec)).
ExitCodes == {7, 130}

\* What waitpid reports for a terminated child: a normal exit with a code,
\* or death by a signal (the kernel's out-of-memory killer sends SIGKILL).
WaitStatuses ==
    {[kind |-> "exited", code |-> c] : c \in ExitCodes}
        \cup {[kind |-> "signaled", code |-> 0]}

NoStatus == [kind |-> "none", code |-> 0]

\* A file: absent, or present with its content (a sequence of characters).
Absent == [exists |-> FALSE, data |-> << >>]

FileWith(text) == [exists |-> TRUE, data |-> text]

\* Content left in a file by an earlier run.
OldText == <<"9", "9">>

Range(s) == {s[i] : i \in 1..Len(s)}

(* --------------------------- registry entries -------------------------- *)

\* ReapableChild { id, child, exit_paths }.  The entries that the request
\* handlers of rpc.rs register carry oom_exit_paths and the sending end of
\* the exit channel as well; tx names the request holding the receiver, 0
\* when the entry has no channel.  io is the child's shared Container I/O
\* with its log: "fresh", or the latest operation a later request applied
\* to it.
Entry(id, exit_paths, oom_exit_paths, tx) ==
    [id |-> id, exit_paths |-> exit_paths,
     oom_exit_paths |-> oom_exit_paths, tx |-> tx, io |-> "fresh"]

\* Option::None of HashMap::get / HashMap::insert.
NoEntry == Entry("", << >>, << >>, 0)

(* ------------------------------- state --------------------------------- *)

VARIABLES
    procs,       \* OS: per pid, "free", "running" or "zombie" (a child of the daemon)
    wstatus,     \* OS: the wait status of each zombie
    files,       \* the filesystem under the exit paths
    unwritable,  \* paths on which File::create fails
    children,    \* ChildReaper.children: pid -> entry (NoEntry when absent)
    lock,        \* holder of the RwLock around children
    reaper,      \* position of the task spawned by wait_for_children
    lastWait,    \* which arm the latest waitpid match took
    cur,         \* the (pid, ec) bound by the latest Exited arm
    wres,        \* result of write_to_exit_paths in the current iteration
    handles,     \* tokio Child handles spawned and not yet given to wait_child
                 \* (handles of one pid whose processes were reaped count once)
    hist,        \* per registry entry: what became of the process it was
                 \* registered for, its exit-path writes and notifications
    lastReg,     \* the latest registration call and what it returned
    req,         \* the request-handler futures of rpc.rs, one per slot
    resp,        \* the response each slot's latest request completed with
    logger,      \* a JournaldLogger { max_log_size, bytes_written }
    wr,          \* the call of JournaldLogger::write in progress, if any
    journal      \* the entries written to Journal, oldest first

\* The journald log driver.
jvars == <<logger, wr, journal>>

\* The supervision of child processes.
svars == <<procs, wstatus, files, unwritable, children, lock, reaper,
           lastWait, cur, wres, handles, hist, lastReg, req, resp>>

vars == <<svars, jvars>>

(* ------------------------- format!("{}", code) ------------------------- *)

Digit(d) ==
    CASE d = 0 -> "0" [] d = 1 -> "1" [] d = 2 -> "2" [] d = 3 -> "3"
      [] d = 4 -> "4" [] d = 5 -> "5" [] d = 6 -> "6" [] d = 7 -> "7"
      [] d = 8 -> "8" [] d = 9 -> "9"

RECURSIVE DecDigits(_)
DecDigits(n) ==
    IF n < 10 THEN <<Digit(n)>>
    ELSE Append(DecDigits(n \div 10), Digit(n % 10))

\* Display of an i32: a minus sign for negatives, then the decimal digits.
FormatI32(n) == IF n < 0 THEN <<"-">> \o DecDigits(-n) ELSE DecDigits(n)

(* ------------------------- write_to_exit_paths ------------------------- *)

\* Index of the first path on which File::create fails, Len + 1 if none.
FirstFailure(paths, bad) ==
    IF \E i \in 1..Len(paths) : paths[i] \in bad
    THEN CHOOSE i \in 1..Len(paths) :
             /\ paths[i] \in bad
             /\ \A j \in 1..(i - 1) : paths[j] \notin bad
    ELSE Len(paths) + 1

\* write_to_exit_paths opening each file for appending instead of creating
\* it afresh: what a file held before stays in front of the code.
WriteToExitPathsAppending(code, paths, fs, bad) ==
    LET stop == IF \E i \in 1..Len(paths) : paths[i] \in bad
                THEN CHOOSE i \in 1..Len(paths) :
                         /\ paths[i] \in bad
                         /\ \A j \in 1..(i - 1) : paths[j] \notin bad
                ELSE Len(paths) + 1
    IN  [fs |-> [q \in Paths |->
                    IF \E i \in 1..(stop - 1) : paths[i] = q
                    THEN [exists |-> TRUE,
                          data |-> fs[q].data \o FormatI32(code)]
                    ELSE fs[q]],
         ok |-> stop > Len(paths)]

\* for path in paths { File::create(path)?.write_all(code_str)?; } Ok(())
\* The first failure returns the error; the paths after it are not visited.
WriteToExitPaths(code, paths, fs, bad) ==
    LET stop == FirstFailure(paths, bad)
        code_str == FormatI32(code)
    IN  [fs |-> [q \in Paths |->
                    IF \E i \in 1..(stop - 1) : paths[i] = q
                    THEN FileWith(code_str)
                    ELSE fs[q]],
         ok |-> stop > Len(paths)]

(* --------------------------- JournaldLogger ---------------------------- *)

\* Option<usize>
None == [some |-> FALSE, v |-> 0]

Some(n) == [some |-> TRUE, v |-> n]

\* JournaldLogger::new(max_log_size)
JournaldLoggerNew(max_log_size) ==
    [max_log_size |-> max_log_size, bytes_written |-> 0]

\* BufRead::read_line: the bytes up to and including the first newline, or
\* all that is left when there is none; nothing at the end of the input.
ReadLine(bytes) ==
    IF \E i \in 1..Len(bytes) : bytes[i] = "\n"
    THEN SubSeq(bytes, 1, CHOOSE i \in 1..Len(bytes) :
                              /\ bytes[i] = "\n"
                              /\ \A j \in 1..(i - 1) : bytes[j] # "\n")
    ELSE bytes

IsWhitespace(c) == c \in {" ", "\n"}

RECURSIVE TrimStart(_)
TrimStart(t) ==
    IF t # << >> /\ IsWhitespace(Head(t)) THEN TrimStart(Tail(t)) ELSE t

RECURSIVE TrimEnd(_)
TrimEnd(t) ==
    IF t # << >> /\ IsWhitespace(t[Len(t)])
    THEN TrimEnd(SubSeq(t, 1, Len(t) - 1))
    ELSE t

\* str::trim
Trim(t) == TrimEnd(TrimStart(t))

PipeName(pipe) ==
    IF pipe = "StdOut" THEN <<"s", "t", "d", "o", "u", "t">>
    ELSE <<"s", "t", "d", "e", "r", "r">>

\* format!("{:?} [{}] {}", SystemTime::now(), pipe name, line_buf.trim())
LogEntry(now, pipe, line_buf) ==
    now \o <<" ", "[">> \o PipeName(pipe) \o <<"]", " ">> \o Trim(line_buf)

\* The accounting of one entry with the entry counted after the rotation:
\* bytes_written = bytes_len in place of bytes_written = 0.
AccountCountingEntry(lg, bytes_len) ==
    LET sum == lg.bytes_written + bytes_len
    IN  IF lg.max_log_size.some /\ sum > lg.max_log_size.v
        THEN [logger |-> [lg EXCEPT !.bytes_written = bytes_len],
              reopens |-> 1]
        ELSE [logger |-> [lg EXCEPT !.bytes_written = sum], reopens |-> 0]

\* The accounting of one entry with the reset left out: reopen is called
\* and the sum is kept.
AccountWithoutReset(lg, bytes_len) ==
    LET sum == lg.bytes_written + bytes_len
    IN  [logger |-> [lg EXCEPT !.bytes_written = sum],
         reopens |-> IF lg.max_log_size.some /\ sum > lg.max_log_size.v
                     THEN 1 ELSE 0]

\* self.bytes_written += bytes_len;
\* if let Some(max_size) = self.max_log_size {
\*     if self.bytes_written > max_size { reopen; self.bytes_written = 0 } }
\* reopens is the number of calls of self.reopen() this made.
Account(lg, bytes_len) ==
    LET sum == lg.bytes_written + bytes_len
    IN  IF lg.max_log_size.some /\ sum > lg.max_log_size.v
        THEN [logger |-> [lg EXCEPT !.bytes_written = 0], reopens |-> 1]
        ELSE [logger |-> [lg EXCEPT !.bytes_written = sum], reopens |-> 0]

\* The entry written in the else branch of the size check only: the entry
\* that set off a rotation is lost.
JournalWriteAllUnlessReopened(entries, log_entry, reopens) ==
    IF reopens = 0 THEN Append(entries, log_entry) ELSE entries

\* Journal.write_all(log_entry.as_bytes())?; Journal.flush()?; after the
\* size check, whether or not it called reopen.
JournalWriteAll(entries, log_entry, reopens) == Append(entries, log_entry)

(* ------------------------------ scheduler ------------------------------ *)

\* The reaping task has no .await in its loop: once polled it keeps the only
\* thread until it panics.  Every other task runs only while it does not.
ReaperOnThread == reaper \in {"waitpid", "lookup", "write"}

\* A runtime with more than one worker thread: the other tasks run whatever
\* the reaping task does.
RunnableOnOtherThread == TRUE

Runnable == ~ReaperOnThread

(* ------------------------------- Init ---------------------------------- *)

\* state of a registry entry's process:
\*   "live"    not reaped yet
\*   "reaped"  reaped by the loop after a normal exit, the entry being present
\*   "killed"  reaped by the loop after death by a signal, the entry being present
\*   "gone"    no entry, or its process was reaped before it was registered
\* wsets counts the calls of write_to_exit_paths for the entry, sent the
\* ExitData values pushed into the entry's exit channel (the loop of
\* wait_for_children has no statement that sends one).
NewHist(live) ==
    [state |-> IF live THEN "live" ELSE "gone", wsets |-> 0, sent |-> 0]

NoHist == NewHist(FALSE)

NoReg == [pid |-> 0, ok |-> TRUE]

\* A slot with no request in flight.
FreeReq == [op |-> "none", pc |-> "free", id |-> "", exit_paths |-> << >>,
            oom_exit_paths |-> << >>, timeout |-> 0, pid |-> 0,
            live |-> FALSE, io_timed_out |-> FALSE]

\* A response not yet built.  op and create_child are not sent: they record
\* which handler answered and what its call of create_child returned.
NoResp == [op |-> "none", create_child |-> "none", status |-> "none",
           error |-> "", container_pid |-> 0, exit_code |-> 0,
           timed_out |-> FALSE]

\* No call of JournaldLogger::write in progress.  fed is the number of bytes
\* the calls so far were given, bytes_len the length of the latest entry,
\* reopens the number of calls of reopen() made by write, input what the
\* latest call was given and base the length of the journal when it began.
NoWrite == [pc |-> "idle", pipe |-> "StdOut", bytes |-> << >>, fed |-> 0,
            bytes_len |-> 0, reopens |-> 0, input |-> << >>, base |-> 0]

SupervisionInit ==
    /\ procs = [p \in Pids |-> "free"]
    /\ wstatus = [p \in Pids |-> NoStatus]
    /\ files = [q \in Paths |-> IF q = "a" THEN FileWith(OldText) ELSE Absent]
    /\ unwritable \in SUBSET Paths
    /\ children = [p \in Pids |-> NoEntry]
    /\ lock = "free"
    /\ reaper = "idle"
    /\ lastWait = "none"
    /\ cur = [pid |-> 0, ec |-> 0]
    /\ wres = "none"
    /\ handles = {}
    /\ hist = [p \in Pids |-> NoHist]
    /\ lastReg = NoReg
    /\ req = [r \in Reqs |-> FreeReq]
    /\ resp = [r \in Reqs |-> NoResp]

\* The daemon after start-up; its log driver has no size limit and is idle.
Init ==
    /\ SupervisionInit
    /\ logger = JournaldLoggerNew(None)
    /\ wr = NoWrite
    /\ journal = << >>

\* A journald driver after JournaldLogger::new, in a daemon with no child.
JournalInit ==
    /\ SupervisionInit
    /\ unwritable = {}
    /\ \E max_log_size \in MaxLogSizes :
           logger = JournaldLoggerNew(max_log_size)
    /\ wr = NoWrite
    /\ journal = << >>

(* ------------------------- operating system ---------------------------- *)

\* A running child terminates, normally or by a signal, and becomes a zombie.
ProcExit(p, s) ==
    /\ procs[p] = "running"
    /\ procs' = [procs EXCEPT ![p] = "zombie"]
    /\ wstatus' = [wstatus EXCEPT ![p] = s]
    /\ UNCHANGED jvars
    /\ UNCHANGED <<files, unwritable, children, lock, reaper, lastWait, cur,
                   wres, handles, hist, lastReg, req, resp>>

\* What reaping pid p does to the bookkeeping of who is still unreaped.
ReapedHandles(p) ==
    {IF h.pid = p THEN [h EXCEPT !.live = FALSE] ELSE h : h \in handles}

ReapedHist(p) ==
    [hist EXCEPT ![p].state =
        IF @ = "live"
        THEN (IF wstatus[p].kind = "exited" THEN "reaped" ELSE "killed")
        ELSE @]

ReapedReq(p) ==
    [r \in Reqs |-> IF req[r].pid = p THEN [req[r] EXCEPT !.live = FALSE]
                    ELSE req[r]]

(* --------------------------- ChildReaper ------------------------------- *)

\* ChildReaper::start -> wait_for_children: tokio::spawn queues the task.
Start ==
    /\ reaper = "idle"
    /\ reaper' = "spawned"
    /\ UNCHANGED jvars
    /\ UNCHANGED <<procs, wstatus, files, unwritable, children, lock,
                   lastWait, cur, wres, handles, hist, lastReg, req, resp>>

\* One waitpid(-1, WNOHANG) and the match on its result.
\*   Err(ECHILD), no child at all      -> panic
\*   Ok(StillAlive), none has changed  -> continue
\*   Ok(Exited(pid, ec))               -> go on with (pid, ec)
\*   Ok(any other status)              -> continue
ReaperWaitpid ==
    /\ reaper \in {"spawned", "waitpid"}
    /\ wres' = "none"
    /\ IF \A p \in Pids : procs[p] = "free"
       THEN /\ lastWait' = "Err"
            /\ reaper' = "panicked"
            /\ UNCHANGED <<procs, wstatus, cur, handles, hist, req>>
       ELSE IF \A p \in Pids : procs[p] # "zombie"
       THEN /\ lastWait' = "StillAlive"
            /\ reaper' = "waitpid"
            /\ UNCHANGED <<procs, wstatus, cur, handles, hist, req>>
       ELSE \E p \in Pids :
            /\ procs[p] = "zombie"
            /\ procs' = [procs EXCEPT ![p] = "free"]
            /\ wstatus' = [wstatus EXCEPT ![p] = NoStatus]
            /\ handles' = ReapedHandles(p)
            /\ hist' = ReapedHist(p)
            /\ req' = ReapedReq(p)
            /\ IF wstatus[p].kind = "exited"
               THEN /\ lastWait' = "Exited"
                    /\ cur' = [pid |-> p, ec |-> wstatus[p].code]
                    /\ reaper' = "lookup"
               ELSE /\ lastWait' = "Other"
                    /\ reaper' = "waitpid"
                    /\ UNCHANGED cur
    /\ UNCHANGED jvars
    /\ UNCHANGED <<files, unwritable, children, lock, lastReg, resp>>

\* The lookup with children.get(&pid).unwrap(): a pid that is not in the map
\* ends the task.
ReaperLookupUnwrap ==
    /\ reaper = "lookup"
    /\ lock = "free"
    /\ IF children[cur.pid] = NoEntry
       THEN /\ reaper' = "panicked"
            /\ lock' = "free"
       ELSE /\ reaper' = "write"
            /\ lock' = "reaper"
    /\ UNCHANGED jvars
    /\ UNCHANGED <<procs, wstatus, files, unwritable, children, lastWait,
                   cur, wres, handles, hist, lastReg, req, resp>>

\* locked_children.write() and children.get(&pid): None -> continue (the
\* guard is dropped), Some(c) -> keep the guard and go on to the writes.
\* write() fails only on a poisoned lock; no holder of the lock panics.
ReaperLookup ==
    /\ reaper = "lookup"
    /\ lock = "free"
    /\ IF children[cur.pid] = NoEntry
       THEN /\ reaper' = "waitpid"
            /\ lock' = "free"
       ELSE /\ reaper' = "write"
            /\ lock' = "reaper"
    /\ UNCHANGED jvars
    /\ UNCHANGED <<procs, wstatus, files, unwritable, children, lastWait,
                   cur, wres, handles, hist, lastReg, req, resp>>

\* write_to_exit_paths(ec, &child.exit_paths); an Err is logged; the guard
\* is dropped at the end of the iteration.
ReaperWrite ==
    /\ reaper = "write"
    /\ LET res == WriteToExitPaths(cur.ec, children[cur.pid].exit_paths,
                                   files, unwritable)
       IN  /\ files' = res.fs
           /\ wres' = IF res.ok THEN "ok" ELSE "err"
    /\ hist' = [hist EXCEPT ![cur.pid].wsets = IF @ < 2 THEN @ + 1 ELSE @]
    /\ lock' = "free"
    /\ reaper' = "waitpid"
    /\ UNCHANGED jvars
    /\ UNCHANGED <<procs, wstatus, unwritable, children, lastWait, cur,
                   handles, lastReg, req, resp>>

\* A caller spawns a process (tokio Command::spawn) and holds its Child.
SpawnChild ==
    /\ Runnable
    /\ \E p \in Pids :
        /\ procs[p] = "free"
        /\ procs' = [procs EXCEPT ![p] = "running"]
        /\ handles' = handles \cup {[pid |-> p, live |-> TRUE]}
    /\ UNCHANGED jvars
    /\ UNCHANGED <<wstatus, files, unwritable, children, lock, reaper,
                   lastWait, cur, wres, hist, lastReg, req, resp>>

\* HashMap::insert(pid, reapable_child): the new value replaces any old one
\* and the old one is returned.
MapInsert(map, pid, e) == [map EXCEPT ![pid] = e]

\* ChildReaper::wait_child(id, c, exit_paths).  c.id() is Some(pid) for a
\* Child that was never awaited, so the pid conversion does not fail here.
WaitChild(id, h, exit_paths) ==
    /\ Runnable
    /\ lock = "free"
    /\ h \in handles
    /\ LET e == Entry(id, exit_paths, << >>, 0)
           old == children[h.pid]
       IN  /\ children' = MapInsert(children, h.pid, e)
           /\ lastReg' = [pid |-> h.pid, ok |-> (old = NoEntry)]
    /\ hist' = [hist EXCEPT ![h.pid] = NewHist(h.live)]
    /\ handles' = handles \ {h}
    /\ UNCHANGED jvars
    /\ UNCHANGED <<procs, wstatus, files, unwritable, lock, reaper,
                   lastWait, cur, wres, req, resp>>

\* ChildReaper::watch_grandchild(child): registers the child under its pid
\* and returns the receiver of its exit channel; DuplicateProcessId when the
\* pid is already registered, and then the registry is left as it was.
WatchGrandchild(map, pid, e) ==
    IF map[pid] # NoEntry
    THEN [ok |-> FALSE, map |-> map]
    ELSE [ok |-> TRUE, map |-> [map EXCEPT ![pid] = e]]

(* ------------------------ rpc.rs: create_container --------------------- *)

\* create_child(runtime, args, io, pidfile) up to its first pending .await:
\* the runtime was started and has forked the container process p, whose
\* pid create_child will read from the pidfile.
CreateChildSpawned(p) ==
    /\ procs[p] = "free"
    /\ procs' = [procs EXCEPT ![p] = "running"]

Respond(r, answer) ==
    /\ resp' = [resp EXCEPT ![r] = answer]
    /\ req' = [req EXCEPT ![r] = FreeReq]

\* The Err swallowed: Ok(()) with the response left as it was initialised.
ErrorRespDropped(msg) == [NoResp EXCEPT !.status = "ok"]

\* An Err(e) returned by the future: the request fails with e as message.
ErrorResp(msg) == [NoResp EXCEPT !.status = "error", !.error = msg]

\* The answer of handler op whose create_child returned result.
Answer(op, result, body) == [body EXCEPT !.op = op, !.create_child = result]

\* create_container: the request's parameters are read, the log is
\* initialised and create_child is awaited.  Either the runtime cannot be
\* started and the Err becomes the response, or the future is suspended
\* with the container process running.
CreateContainer(r, id, exit_paths, oom_exit_paths) ==
    /\ Runnable
    /\ req[r].pc = "free"
    /\ \/ /\ Respond(r, Answer("create", "SpawnFailed",
                                ErrorResp("SpawnFailed")))
          /\ UNCHANGED procs
       \/ \E p \in Pids :
          /\ CreateChildSpawned(p)
          /\ req' = [req EXCEPT ![r] =
                 [FreeReq EXCEPT !.op = "create", !.pc = "pidfile",
                     !.id = id, !.exit_paths = exit_paths,
                     !.oom_exit_paths = oom_exit_paths,
                     !.pid = p, !.live = TRUE]]
          /\ resp' = [resp EXCEPT ![r] = NoResp]
    /\ UNCHANGED jvars
    /\ UNCHANGED <<wstatus, files, unwritable, children, lock, reaper,
                   lastWait, cur, wres, handles, hist, lastReg>>

\* create_child resumes: the pidfile never became valid
\* (PidDiscoveryFailed), or it holds the container's pid, and then
\* create_container builds the Child and calls watch_grandchild with no
\* .await in between.
CreatePidfile(r) ==
    /\ Runnable
    /\ lock = "free"
    /\ req[r].op = "create"
    /\ req[r].pc = "pidfile"
    /\ \/ /\ Respond(r, Answer("create", "PidDiscoveryFailed",
                                ErrorResp("PidDiscoveryFailed")))
          /\ UNCHANGED <<children, hist, lastReg>>
       \/ LET pid == req[r].pid
              e == Entry(req[r].id, req[r].exit_paths,
                         req[r].oom_exit_paths, 0)
              w == WatchGrandchild(children, pid, e)
          IN  /\ children' = w.map
              /\ lastReg' = [pid |-> pid, ok |-> w.ok]
              /\ hist' = IF w.ok
                         THEN [hist EXCEPT ![pid] = NewHist(req[r].live)]
                         ELSE hist
              /\ Respond(r, Answer("create", "Ok",
                            IF w.ok
                            THEN [NoResp EXCEPT !.status = "ok",
                                                !.container_pid = pid]
                            ELSE ErrorResp("DuplicateProcessId")))
    /\ UNCHANGED jvars
    /\ UNCHANGED <<procs, wstatus, files, unwritable, lock, reaper,
                   lastWait, cur, wres, handles>>

(* ---------------------- rpc.rs: exec_sync_container -------------------- *)

\* A deadline computed for every timeout, 0 included.
TimeToTimeoutAlways(timeout) == "Some"

\* let time_to_timeout = if timeout > 0 { Some(now + timeout) } else { None }
TimeToTimeout(timeout) == IF timeout > 0 THEN "Some" ELSE "None"

\* The Err of create_child passed on as the failure of the request.
UnableToCreateChildAsError == ErrorResp("Unable to create child")

\* Err(e) => { error!("Unable to create child"); resp.set_exit_code(-2) }
\* and then Ok(()): a response that holds only the exit code.
UnableToCreateChild == [NoResp EXCEPT !.status = "ok", !.exit_code = -2]

\* exec_sync_container up to the first pending .await of create_child; a
\* runtime that cannot be started is answered with exit code -2.
ExecSync(r, id, timeout) ==
    /\ Runnable
    /\ req[r].pc = "free"
    /\ \/ /\ Respond(r, Answer("exec", "SpawnFailed", UnableToCreateChild))
          /\ UNCHANGED procs
       \/ \E p \in Pids :
          /\ CreateChildSpawned(p)
          /\ req' = [req EXCEPT ![r] =
                 [FreeReq EXCEPT !.op = "exec", !.pc = "pidfile",
                     !.id = id, !.timeout = timeout,
                     !.pid = p, !.live = TRUE]]
          /\ resp' = [resp EXCEPT ![r] = NoResp]
    /\ UNCHANGED jvars
    /\ UNCHANGED <<wstatus, files, unwritable, children, lock, reaper,
                   lastWait, cur, wres, handles, hist, lastReg>>

\* create_child resumes.  Err(e): exit code -2.  Ok(grandchild_pid): the
\* deadline is set, the Child is built with no exit paths and registered by
\* watch_grandchild; its Err fails the request, its Ok(exit_rx) leads to the
\* .await of read_all_with_timeout.
ExecPidfile(r) ==
    /\ Runnable
    /\ lock = "free"
    /\ req[r].op = "exec"
    /\ req[r].pc = "pidfile"
    /\ \/ /\ Respond(r, Answer("exec", "PidDiscoveryFailed",
                                UnableToCreateChild))
          /\ UNCHANGED <<children, hist, lastReg>>
       \/ LET pid == req[r].pid
              e == Entry(req[r].id, << >>, << >>, r)
              w == WatchGrandchild(children, pid, e)
          IN  /\ children' = w.map
              /\ lastReg' = [pid |-> pid, ok |-> w.ok]
              /\ IF w.ok
                 THEN /\ hist' = [hist EXCEPT ![pid] = NewHist(req[r].live)]
                      /\ req' = [req EXCEPT ![r].pc = "drain"]
                      /\ UNCHANGED resp
                 ELSE /\ Respond(r, Answer("exec", "Ok",
                                         ErrorResp("DuplicateProcessId")))
                      /\ UNCHANGED hist
    /\ UNCHANGED jvars
    /\ UNCHANGED <<procs, wstatus, files, unwritable, lock, reaper,
                   lastWait, cur, wres, handles>>

\* The process of request r still holds its output pipes open.
StreamsOpen(r) == req[r].live /\ procs[req[r].pid] = "running"

\* io.read_all_with_timeout(time_to_timeout) returns: both streams closed
\* (timed_out = false), or, with a deadline, the deadline elapsed while the
\* process still held them open (timed_out = true).
\* The request then awaits exit_rx.recv(), which returns once an ExitData
\* was sent on the channel of its registry entry.
ExecDrain(r) ==
    /\ Runnable
    /\ req[r].pc = "drain"
    /\ \E timed_out \in BOOLEAN :
        /\ timed_out = StreamsOpen(r)
        /\ timed_out => TimeToTimeout(req[r].timeout) = "Some"
        /\ req' = [req EXCEPT ![r].pc = "recv", ![r].io_timed_out = timed_out]
    /\ UNCHANGED jvars
    /\ UNCHANGED <<procs, wstatus, files, unwritable, children, lock, reaper,
                   lastWait, cur, wres, handles, hist, lastReg, resp>>

(* ------------- rpc.rs: attach, reopen_log, set_window_size ------------- *)

\* ChildReaper::get(container_id): the registered children with that
\* container id; NotFound when there is none.
Get(map, id) == {p \in Pids : map[p] # NoEntry /\ map[p].id = id}

\* let child = pry_err!(self.reaper().get(container_id)): an Err answers
\* the request at once; otherwise the future applies op to child.io().
LookupRequest(r, op, id) ==
    /\ lock = "free"
    /\ IF Get(children, id) = {}
       THEN /\ Respond(r, Answer(op, "none", ErrorResp("NotFound")))
            /\ UNCHANGED children
       ELSE \E p \in Get(children, id) :
            /\ children' = [children EXCEPT ![p].io = op]
            /\ Respond(r, Answer(op, "none", [NoResp EXCEPT !.status = "ok"]))
    /\ UNCHANGED jvars
    /\ UNCHANGED <<procs, wstatus, files, unwritable, lock, reaper, lastWait,
                   cur, wres, handles, hist, lastReg>>

\* child.io().attach().await.add(&socket_path)
AttachContainer(r, id) ==
    /\ Runnable
    /\ req[r].pc = "free"
    /\ LookupRequest(r, "attach", id)

\* child.io().logger().await.write().await.reopen()
ReopenLogContainer(r, id) ==
    /\ Runnable
    /\ req[r].pc = "free"
    /\ LookupRequest(r, "reopen_log", id)

\* child.io().resize(width, height)
SetWindowSizeContainer(r, id) ==
    /\ Runnable
    /\ req[r].pc = "free"
    /\ LookupRequest(r, "set_window_size", id)

(* ------------------------ journald.rs: write --------------------------- *)

\* JournaldLogger::write(pipe, bytes) is called; it holds &mut self, so no
\* other call is in progress.
JournaldWrite(pipe, bytes) ==
    /\ wr.pc = "idle"
    /\ wr.fed + Len(bytes) <= MaxLen
    /\ wr' = [wr EXCEPT !.pc = "loop", !.pipe = pipe, !.bytes = bytes,
                        !.fed = @ + Len(bytes), !.input = bytes,
                        !.base = Len(journal)]
    /\ UNCHANGED <<logger, journal>>
    /\ UNCHANGED svars

\* One turn of `while bytes.read_line(&mut line_buf).await? > 0`: the
\* entry is formatted and accounted for, then written to Journal; at the
\* end of the input write returns Ok(()).
JournaldReadLine ==
    /\ wr.pc = "loop"
    /\ LET line_buf == ReadLine(wr.bytes)
       IN  IF Len(line_buf) = 0
           THEN /\ wr' = [wr EXCEPT !.pc = "idle"]
                /\ UNCHANGED <<logger, journal>>
           ELSE \E now \in Stamps :
                LET log_entry == LogEntry(now, wr.pipe, line_buf)
                    bytes_len == Len(log_entry)
                    acc == Account(logger, bytes_len)
                IN  /\ logger' = acc.logger
                    /\ journal' = JournalWriteAll(journal, log_entry,
                                                  acc.reopens)
                    /\ wr' = [wr EXCEPT
                           !.bytes = SubSeq(@, Len(line_buf) + 1, Len(@)),
                           !.bytes_len = bytes_len,
                           !.reopens = @ + acc.reopens]
    /\ UNCHANGED svars

(* ------------------------------- Next ---------------------------------- *)

\* The operating system and the reaping task.
ReaperNext ==
    \/ \E p \in Pids, s \in WaitStatuses : ProcExit(p, s)
    \/ Start
    \/ ReaperWaitpid
    \/ ReaperLookup
    \/ ReaperWrite

\* child_reaper.rs: callers register the children they spawn by wait_child.
Next ==
    \/ ReaperNext
    \/ SpawnChild
    \/ \E id \in ContainerIds, h \in handles, ps \in PathLists :
           WaitChild(id, h, ps)

Spec == Init /\ [][Next]_vars

\* rpc.rs: the request handlers register container processes by
\* watch_grandchild.
RpcNext ==
    \/ ReaperNext
    \/ \E r \in Reqs, c \in CreateRequests :
           CreateContainer(r, c.id, c.exit_paths, c.oom_exit_paths)
    \/ \E r \in Reqs : CreatePidfile(r)
    \/ \E r \in Reqs, id \in ContainerIds, t \in Timeouts : ExecSync(r, id, t)
    \/ \E r \in Reqs : ExecPidfile(r)
    \/ \E r \in Reqs : ExecDrain(r)

RpcSpec == Init /\ [][RpcNext]_vars

\* rpc.rs: create_container requests alone.
CreateNext ==
    \/ ReaperNext
    \/ \E r \in Reqs, c \in CreateRequests :
           CreateContainer(r, c.id, c.exit_paths, c.oom_exit_paths)
    \/ \E r \in Reqs : CreatePidfile(r)

\* The daemon after start-up, on a filesystem where every exit path can be
\* written.
WritableInit == Init /\ unwritable = {}

CreateSpec == WritableInit /\ [][CreateNext]_vars

\* rpc.rs: exec_sync_container requests alone.
ExecNext ==
    \/ ReaperNext
    \/ \E r \in Reqs, id \in ContainerIds, t \in Timeouts : ExecSync(r, id, t)
    \/ \E r \in Reqs : ExecPidfile(r)
    \/ \E r \in Reqs : ExecDrain(r)

ExecSpec == Init /\ [][ExecNext]_vars

\* rpc.rs: containers are created, and later requests look them up by
\* container id.
LookupNext ==
    \/ ReaperNext
    \/ \E r \in Reqs, c \in CreateRequests :
           CreateContainer(r, c.id, c.exit_paths, c.oom_exit_paths)
    \/ \E r \in Reqs : CreatePidfile(r)
    \/ \E r \in Reqs, id \in ContainerIds : AttachContainer(r, id)
    \/ \E r \in Reqs, id \in ContainerIds : ReopenLogContainer(r, id)
    \/ \E r \in Reqs, id \in ContainerIds : SetWindowSizeContainer(r, id)

LookupSpec == Init /\ [][LookupNext]_vars

\* journald.rs: the driver is given container output to log.
JournalNext ==
    \/ \E pipe \in Pipes, bytes \in Inputs : JournaldWrite(pipe, bytes)
    \/ JournaldReadLine

JournalSpec == JournalInit /\ [][JournalNext]_vars

(* ------------------------------ properties ----------------------------- *)

Registered(p) == children[p] # NoEntry

\* The loop is between reaping pid p and the end of that iteration.
Handling(p) == reaper \in {"lookup", "write"} /\ cur.pid = p

\* The loop reaped the process of p's entry, the entry being registered, and
\* has finished the iteration in which it did.
Handled(p) == hist[p].state \in {"reaped", "killed"} /\ ~Handling(p)

\* The decimal text of each exit code, written out by hand.
ExpectedText == (7 :> <<"7">>) @@ (130 :> <<"1", "3", "0">>)

\* C1: every registered process id gets exactly one exit notification and
\* exactly one set of exit-path writes once its process has terminated and
\* the loop has handled it: never none, never more than one.
C1_ExactlyOneNotificationAndWrites ==
    \A p \in Pids : Handled(p) => (hist[p].sent = 1 /\ hist[p].wsets = 1)

\* C2: a process spawned by create_container or exec_sync_container is never
\* reaped by the loop while the request has not yet registered its pid.
C2_RegisteredBeforeReaped ==
    \A r \in Reqs : req[r].pc = "pidfile" => req[r].live

\* C3: registering a pid that is already registered, its child still live,
\* returns an error and leaves the registry entry of that pid as it was.
C3_DuplicateIsErrorNotOverwrite ==
    [][\A id \in ContainerIds, h \in handles, ps \in PathLists :
          (WaitChild(id, h, ps) /\ Registered(h.pid)
                                /\ hist[h.pid].state = "live")
              => (~lastReg'.ok /\ children'[h.pid] = children[h.pid])]_vars

\* C4: registering a pid again after its registered process terminated and
\* was handled by the loop succeeds; registering it while the registered
\* child is live fails.
C4_ReuseAfterReapSucceeds ==
    [][\A id \in ContainerIds, h \in handles, ps \in PathLists :
          WaitChild(id, h, ps)
              => /\ Handled(h.pid) => lastReg'.ok
                 /\ (Registered(h.pid) /\ hist[h.pid].state = "live")
                        => ~lastReg'.ok]_vars

\* C5: once the loop has reaped a registered process and handled it, the
\* registry holds no entry for its pid.
C5_HandledIsRemoved ==
    \A p \in Pids : Handled(p) => ~Registered(p)

\* C6: when the loop handles a normally exited registered child and every
\* one of its exit paths can be written, each exit path then holds exactly
\* the decimal text of the exit code, and every other path is untouched.
C6_ExitPathsHoldDecimalCode ==
    [][(reaper = "write" /\ reaper' = "waitpid"
          /\ Range(children[cur.pid].exit_paths) \cap unwritable = {})
        => \A q \in Paths :
              files'[q] = IF q \in Range(children[cur.pid].exit_paths)
                          THEN FileWith(ExpectedText[cur.ec])
                          ELSE files[q]]_vars

\* C6 happens: code 130 was written over the old content of "a" and into
\* the absent "b".
C6_Witness ==
    /\ wres = "ok"
    /\ reaper = "waitpid"
    /\ cur.ec = 130
    /\ children[cur.pid].exit_paths = <<"a", "b">>
    /\ files["a"] = FileWith(<<"1", "3", "0">>)
    /\ files["b"] = FileWith(<<"1", "3", "0">>)

\* C7: when one exit path cannot be written, the loop still writes the exit
\* code to every other exit path of the child, and it keeps running.
C7_FailedPathDoesNotBlockOthers ==
    [][(reaper = "write" /\ reaper' # "write")
        => /\ \A q \in Range(children[cur.pid].exit_paths) \ unwritable :
                 files'[q] = FileWith(ExpectedText[cur.ec])
           /\ reaper' = "waitpid"]_vars

\* C8: a registered child that dies of a signal (out of memory) is not
\* skipped: once the loop has handled it, its oom exit paths exist and its
\* exit paths have been written once.
C8_OomChildIsWritten ==
    \A p \in Pids :
        (hist[p].state = "killed" /\ ~Handling(p) /\ reaper = "waitpid")
            => /\ hist[p].wsets = 1
               /\ \A q \in Range(children[p].oom_exit_paths) \ unwritable :
                      files[q].exists

\* C9: the reaping loop never panics and never ends.
C9_ReaperNeverPanics == reaper # "panicked"

\* C10: the reaping task does not keep the thread when no child has changed
\* state: a poll that finds nothing is followed by the task giving the
\* thread to the pending request handlers.
C10_BlocksUntilChange == lastWait = "StillAlive" => ~ReaperOnThread

\* C11: an exec_sync_container request with timeout 0 has no deadline: the
\* draining of its output never returns timed_out = true, whatever the
\* process and the reaping loop do, and no response carries timed_out.
C11_NoDeadlineNeverTimedOut ==
    \A r \in Reqs :
        /\ (req[r].op = "exec" /\ req[r].timeout = 0) => ~req[r].io_timed_out
        /\ ~resp[r].timed_out

\* C11 happens: a request with timeout 0 was registered, its process ended
\* and was reaped by the loop, and the draining has returned.
C11_Witness ==
    \E r \in Reqs :
        /\ req[r].op = "exec"
        /\ req[r].timeout = 0
        /\ req[r].pc = "recv"
        /\ ~req[r].live

\* C12: an exec_sync_container request with a positive timeout whose process
\* outlived the deadline is answered, with timed_out = true and the exit
\* code, once the process has exited and the loop has handled it: it is not
\* left waiting for the notification.
C12_TimedOutRequestIsAnswered ==
    \A r \in Reqs :
        (req[r].op = "exec" /\ req[r].pc = "recv" /\ req[r].io_timed_out)
            => ~(hist[req[r].pid].state = "reaped" /\ Handled(req[r].pid))

\* The step is request slot r being answered.
Answers(r) == resp'[r] # resp[r] /\ resp'[r].status # "none"

\* C13: when create_child fails in exec_sync_container, the request is
\* answered successfully with exit code -2 and timed_out unset, not with a
\* protocol error, and the step registers no child.
C13_ExecSpawnFailureIsExitCode ==
    [][\A r \in Reqs :
          (Answers(r) /\ resp'[r].op = "exec"
                      /\ resp'[r].create_child # "Ok")
              => /\ resp'[r].status = "ok"
                 /\ resp'[r].error = ""
                 /\ resp'[r].exit_code = -2
                 /\ ~resp'[r].timed_out
                 /\ children' = children]_vars

\* C13 happens: the runtime of an exec_sync_container request was started
\* but its pidfile never became valid, and the request was answered.
C13_Witness ==
    \E r \in Reqs :
        /\ resp[r].op = "exec"
        /\ resp[r].create_child = "PidDiscoveryFailed"
        /\ resp[r].exit_code = -2
        /\ req[r].pc = "free"

\* C14: when the runtime of a create_container request cannot be spawned,
\* the request fails with the error SpawnFailed and the step leaves the
\* registry as it was: no entry added, none modified.
C14_CreateSpawnFailureLeavesRegistry ==
    [][\A r \in Reqs :
          (Answers(r) /\ resp'[r].op = "create"
                      /\ resp'[r].create_child = "SpawnFailed")
              => /\ resp'[r].status = "error"
                 /\ resp'[r].error = "SpawnFailed"
                 /\ children' = children]_vars

\* C14 happens: a create_container request failed to spawn its runtime
\* while the registry held the entry of an earlier container.
C14_Witness ==
    \E r \in Reqs :
        /\ resp[r].op = "create"
        /\ resp[r].create_child = "SpawnFailed"
        /\ resp[r].status = "error"
        /\ req[r].pc = "free"
        /\ \E p \in Pids : Registered(p)

\* Some registered child with container id is still unreaped.
LiveChild(id) ==
    \E p \in Pids : /\ Registered(p)
                     /\ children[p].id = id
                     /\ hist[p].state = "live"

C16_RotationResetsCounter ==
    [][(wr.pc = "loop" /\ journal' # journal /\ logger.max_log_size.some)
        => IF logger.bytes_written + wr'.bytes_len > logger.max_log_size.v
           THEN /\ wr'.reopens = wr.reopens + 1
                /\ logger'.bytes_written < wr'.bytes_len + 0
           ELSE wr'.reopens = wr.reopens]_vars

\* C16 happens: with max_log_size = 12 an entry that fit was followed by
\* one that took the count over 12; reopen was called once and the counter
\* is below the length of that entry.
C16_Witness ==
    /\ logger.max_log_size = Some(12)
    /\ Len(journal) = 2
    /\ Len(journal[1]) <= 12
    /\ wr.reopens = 1
    /\ logger.bytes_written < wr.bytes_len

\* C17: the lock of the registry is held only around an insert, a remove or
\* a lookup: the reaping loop does not hold it when it is about to write
\* the exit paths, and no task holds it while it is off the thread.
C17_LockNotHeldAcrossIO ==
    /\ reaper = "write" => lock = "free"
    /\ lock = "reaper" => ReaperOnThread

\* C18: after the deadline of an exec_sync_container request has passed
\* with the child alive, the child is still registered, and as long as it
\* is unreaped the reaping loop is there to reap it when it terminates.
C18_DeadlineLeavesChildToReaper ==
    \A r \in Reqs :
        (req[r].op = "exec" /\ req[r].pc = "recv" /\ req[r].io_timed_out)
            => /\ Registered(req[r].pid)
               /\ req[r].live => reaper # "panicked"

\* C19: a detached child, registered by wait_child with no receiver of its
\* exit, is reaped when it terminates and its exit paths are written: while
\* it is unreaped the reaping loop is there to reap it, and once the loop
\* has handled its normal exit the exit paths were written once.
C19_DetachedChildIsReapedAndWritten ==
    \A p \in Pids :
        /\ (Registered(p) /\ hist[p].state = "live") => reaper # "panicked"
        /\ (hist[p].state = "reaped" /\ Handled(p)) => hist[p].wsets = 1

\* C20: the exit paths of a registered child are written before its pid can
\* be registered again: no registration under that pid takes place between
\* the waitpid that reported the child's exit and the end of its exit-path
\* writes.
C20_WritesBeforePidReuse ==
    [][\A p \in Pids :
          Handling(p)
              => \A id \in ContainerIds, h \in handles, ps \in PathLists :
                     h.pid = p => ~WaitChild(id, h, ps)]_vars

\* C20 happens: the child of pid 1 exited with code 7, its exit path "a"
\* was written, and only then was pid 1, reused by a new process,
\* registered again.
C20_Witness ==
    /\ cur = [pid |-> 1, ec |-> 7]
    /\ files["a"] = FileWith(<<"7">>)
    /\ lastReg.pid = 1
    /\ Registered(1)
    /\ hist[1].state = "live"
    /\ hist[1].wsets = 0
    /\ procs[1] = "running"

\* C21: when the loop has reaped a pid that is not in the registry, it
\* writes no file, sends no notification, leaves the registry as it was and
\* goes on to its next waitpid.
C21_UnknownPidIsIgnored ==
    [][(reaper = "lookup" /\ reaper' # "lookup"
                          /\ children[cur.pid] = NoEntry)
        => /\ files' = files
           /\ hist' = hist
           /\ children' = children
           /\ lock' = "free"
           /\ reaper' = "waitpid"]_vars

\* C21 happens: the loop reaped a normally exited process whose pid was not
\* registered and is back at waitpid, having written nothing.
C21_Witness ==
    /\ reaper = "waitpid"
    /\ lastWait = "Exited"
    /\ cur.pid \in Pids
    /\ children[cur.pid] = NoEntry
    /\ wres = "none"

\* The lines of an input, cut after each newline; line is the line begun.
RECURSIVE LinesOf(_, _)
LinesOf(bytes, line) ==
    IF bytes = << >>
    THEN (IF line = << >> THEN << >> ELSE <<line>>)
    ELSE IF Head(bytes) = "\n"
         THEN <<Append(line, "\n")>> \o LinesOf(Tail(bytes), << >>)
         ELSE LinesOf(Tail(bytes), Append(line, Head(bytes)))

RECURSIVE Concat(_)
Concat(lines) ==
    IF lines = << >> THEN << >> ELSE Head(lines) \o Concat(Tail(lines))

\* The text of an entry after its time: the pipe in brackets and the line
\* from its first to its last character that is not whitespace.
EntryOf(pipe, line) ==
    <<" ", "[">> \o (IF pipe = "StdOut"
                      THEN <<"s", "t", "d", "o", "u", "t">>
                      ELSE <<"s", "t", "d", "e", "r", "r">>)
        \o <<"]", " ">>
        \o LET black == {i \in 1..Len(line) : line[i] \notin {" ", "\n"}}
           IN  IF black = {} THEN << >>
               ELSE SubSeq(line,
                           CHOOSE i \in black : \A j \in black : i <= j,
                           CHOOSE i \in black : \A j \in black : i >= j)

\* C22: write puts every line it has read into the journal exactly once
\* and in the order of the input, the line whose entry set off a rotation
\* included: the entries added since the call began are those of the
\* lines read so far, the bytes left are the lines still to come, and when
\* the call has returned every line of the input has its entry.
C22_EveryLineOnceInOrder ==
    LET lines == LinesOf(wr.input, << >>)
        done == Len(journal) - wr.base
    IN  /\ done \in 0..Len(lines)
        /\ \A i \in 1..done :
               \E now \in Stamps :
                   journal[wr.base + i] = now \o EntryOf(wr.pipe, lines[i])
        /\ wr.bytes = Concat(SubSeq(lines, done + 1, Len(lines)))
        /\ wr.pc = "idle" => done = Len(lines)

\* C22 happens: with max_log_size = 12 a call given the lines "x\n" and
\* "x" has returned; the entry of the second line set off the one rotation
\* and is in the journal after the entry of the first.
C22_Witness ==
    /\ logger.max_log_size = Some(12)
    /\ wr.pc = "idle"
    /\ wr.input = <<"x", "\n", "x">>
    /\ wr.base = 0
    /\ wr.reopens = 1
    /\ logger.bytes_written = 0
    /\ Len(journal) = 2
    /\ Len(journal[1]) = 12
    /\ journal[2] \in {now \o EntryOf("StdOut", <<"x">>) : now \in Stamps}

\* The lengths of the entries k..Len(entries) added up.
RECURSIVE SumLen(_, _)
SumLen(entries, k) ==
    IF k > Len(entries) THEN 0
    ELSE Len(entries[k]) + SumLen(entries, k + 1)

\* C23: with max_log_size = N, after every entry bytes_written is at most
\* N, and it is the sum of the lengths of the latest entries, of none
\* right after a rotation; with no max_log_size, write never calls reopen
\* and bytes_written is the sum of the lengths of all entries written.
C23_CounterWithinLimit ==
    IF logger.max_log_size.some
    THEN /\ logger.bytes_written <= logger.max_log_size.v
         /\ \E k \in 1..(Len(journal) + 1) :
                logger.bytes_written = SumLen(journal, k)
    ELSE /\ wr.reopens = 0
         /\ logger.bytes_written = SumLen(journal, 1)

\* C23 happens: with max_log_size = 12 three entries of 11 bytes were
\* written; the second set off a rotation, and the counter holds the 11
\* bytes of the third.
C23_Witness ==
    /\ logger.max_log_size = Some(12)
    /\ Len(journal) = 3
    /\ \A i \in 1..3 : Len(journal[i]) = 11
    /\ wr.reopens = 1
    /\ logger.bytes_written = 11

=============================================================================
